---- MODULE Spec2Model ----
(***************************************************************************)
(* Reality-Lens vision service: keypoint decoding, ergonomic feature       *)
(* extraction and biomechanical risk scoring.                              *)
(*                                                                         *)
(* Sources: vision-service/src/ml/pose_pipeline.py,                        *)
(*          vision-service/src/services/risk_scoring.py,                   *)
(*          vision-service/src/services/posture_estimation.py,             *)
(*          vision-service/src/routers/process.py,                         *)
(*          vision-service/src/ml/model_loader.py.                         *)
(*                                                                         *)
(* Number representation.  Python's None in a numeric slot is None (-1):   *)
(* every number the code produces in such a slot is >= 0.  None in a       *)
(* string slot is NoneStr.  Angles are whole degrees, confidences of       *)
(* keypoints are tenths (0.3 is 3), coordinates are twentieths (0.35 is 7),*)
(* REBA weights are hundredths (0.20 is 20).  A dict is a function whose   *)
(* DOMAIN is its key set, so {} is the empty function.                     *)
(***************************************************************************)
EXTENDS Integers, Sequences, FiniteSets, TLC

VARIABLES
    config_file,    \* src/config/models.yaml as the process finds it
    _scorer,        \* risk_scoring._scorer: NoScorer or the constructed scorer
    inputs,         \* argument of the compute_risk call under way
    risk_result,    \* what the last compute_risk call returned (or raised)
    scored,         \* number of calculate_reba_score/calculate_rula_score runs
    model_output,   \* the inference output handed to extract_keypoints
    keypoints,      \* what extract_keypoints returned
    features,       \* what calculate_ergonomic_features returned
    model_file,     \* the ONNX model file as load_model finds it
    _model_loader,  \* posture_estimation._model_loader: NoLoader or the loader
    _pose_pipeline, \* posture_estimation._pose_pipeline is not None
    response,       \* what the last POST /process/image or GET /health returned
    arrivals,       \* the latencies handed to update_metrics so far, in order
    args,           \* the scorer method called directly, with its arguments
    ret,            \* what that method returned
    image_paths,    \* argument of the process_batch call under way
    results,        \* the results list process_batch has built so far
    local_scorer,   \* per concurrent call: the local `scorer` of compute_risk
    constructions,  \* number of BiomechanicalScorer() constructions completed
    calls,          \* number of calls made so far
    pc              \* position of the call under way, or of the service

riskVars == <<_scorer, inputs, risk_result, scored>>
poseVars == <<model_output, keypoints, features>>
serviceVars == <<model_file, _model_loader, _pose_pipeline, response, arrivals>>
scorerVars == <<args, ret>>
batchVars == <<image_paths, results>>
concVars == <<local_scorer, constructions>>

vars == <<config_file, riskVars, poseVars, serviceVars, scorerVars, batchVars,
          concVars, calls, pc>>

None == -1
NoneStr == "None"

\* Outcome markers of a step that raises instead of returning a number.
KeyError == -2

\* Bound: how many times the drawn call is repeated in one process.
MaxCalls == 3

(***************************************************************************)
(* dict.get(key, default)                                                  *)
(***************************************************************************)
Get(d, k, default) == IF k \in DOMAIN d THEN d[k] ELSE default

EmptyDict == <<>>

Min(a, b) == IF a <= b THEN a ELSE b

(***************************************************************************)
(* Configuration documents.                                                *)
(***************************************************************************)
FeatureNames ==
    {"neck_flexion", "trunk_flexion", "left_shoulder_abduction",
     "right_shoulder_abduction", "left_elbow_flexion", "right_elbow_flexion",
     "asymmetry_score", "reach_distance_ratio"}

Th(l, m, h) == [low |-> l, medium |-> m, high |-> h]

\* BiomechanicalScorer._get_default_config: no "elbow_flexion" entry.
_get_default_config ==
    [ergonomic_thresholds |->
        [neck_flexion |-> Th(20, 45, 60),
         trunk_flexion |-> Th(20, 45, 60),
         shoulder_abduction |-> Th(45, 90, 135)],
     risk_scoring |->
        [reba_weights |-> [neck |-> 20, trunk |-> 25, upper_arm |-> 20, lower_arm |-> 15],
         risk_levels |-> << <<"negligible", 0, 20>>, <<"low", 21, 40>>,
                            <<"medium", 41, 60>>, <<"high", 61, 80>>,
                            <<"very_high", 81, 100>> >>]]

\* What yaml.safe_load returns for an empty document: None, not a mapping.
NoneDoc == [yaml_null |-> TRUE]

IsMapping(doc) == "yaml_null" \notin DOMAIN doc

\* A complete document with its own thresholds, weights and band table
\* (bands overlap and leave 91..100 uncovered).
FullDoc ==
    [ergonomic_thresholds |->
        [neck_flexion |-> Th(10, 20, 30),
         trunk_flexion |-> Th(10, 30, 50),
         shoulder_abduction |-> Th(30, 60, 90),
         elbow_flexion |-> Th(50, 90, 120)],
     risk_scoring |->
        [reba_weights |-> [neck |-> 25, trunk |-> 25, upper_arm |-> 25, lower_arm |-> 25],
         risk_levels |-> << <<"ok", 0, 50>>, <<"bad", 41, 90>> >>]]

\* A document with only the pose_estimation section: every scoring item missing.
PoseOnlyDoc == [pose_estimation |-> EmptyDict]

\* A document whose neck_flexion entry lacks "high" and which has no band table.
PartialDoc ==
    [ergonomic_thresholds |->
        [neck_flexion |-> [low |-> 20, medium |-> 45],
         shoulder_abduction |-> Th(45, 90, 135)],
     risk_scoring |->
        [reba_weights |-> [neck |-> 20, trunk |-> 25]]]

\* The file is absent, or it holds a mapping.
ConfigFiles ==
    {[exists |-> FALSE, doc |-> EmptyDict]} \cup
    {[exists |-> TRUE, doc |-> d] : d \in {FullDoc, PoseOnlyDoc, PartialDoc}}

\* As ConfigFiles, and the file that holds an empty document.
AnyConfigFiles == ConfigFiles \cup {[exists |-> TRUE, doc |-> NoneDoc]}

\* BiomechanicalScorer._load_config
_load_config(file) == IF ~file.exists THEN _get_default_config ELSE file.doc

NoScorer == [constructed |-> FALSE]

\* BiomechanicalScorer.__init__ raises AttributeError when the loaded
\* document is not a mapping (self.config.get on None).
InitRaises(file) == ~IsMapping(_load_config(file))

BiomechanicalScorer(file) ==
    LET cfg == _load_config(file) IN
    [constructed |-> TRUE,
     thresholds  |-> Get(cfg, "ergonomic_thresholds", EmptyDict),
     weights     |-> Get(Get(cfg, "risk_scoring", EmptyDict), "reba_weights", EmptyDict),
     risk_levels |-> Get(Get(cfg, "risk_scoring", EmptyDict), "risk_levels", <<>>)]

(***************************************************************************)
(* BiomechanicalScorer: ordinal scoring, REBA, RULA, bands, traffic light. *)
(***************************************************************************)
DefaultNeck == Th(20, 45, 60)
DefaultTrunk == Th(20, 45, 60)
DefaultShoulder == Th(45, 90, 135)
DefaultElbow == Th(60, 100, 140)

_score_angle_Inclusive(angle, thresholds) ==
    IF angle = None THEN 0
    ELSE IF "low" \notin DOMAIN thresholds THEN KeyError
    ELSE IF angle <= thresholds["low"] THEN 1
    ELSE IF "medium" \notin DOMAIN thresholds THEN KeyError
    ELSE IF angle <= thresholds["medium"] THEN 2
    ELSE IF "high" \notin DOMAIN thresholds THEN KeyError
    ELSE IF angle <= thresholds["high"] THEN 3
    ELSE 4

_score_angle_SwappedBands(angle, thresholds) ==
    IF angle = None THEN 0
    ELSE IF "low" \notin DOMAIN thresholds THEN KeyError
    ELSE IF angle < thresholds["low"] THEN 1
    ELSE IF "medium" \notin DOMAIN thresholds THEN KeyError
    ELSE IF angle < thresholds["medium"] THEN 3
    ELSE IF "high" \notin DOMAIN thresholds THEN KeyError
    ELSE IF angle < thresholds["high"] THEN 2
    ELSE 4

\* _score_angle: thresholds["low"], ["medium"], ["high"] are read one after
\* the other, each only when the comparison before it failed; a missing key
\* raises KeyError at the read.
_score_angle(angle, thresholds) ==
    IF angle = None THEN 0
    ELSE IF "low" \notin DOMAIN thresholds THEN KeyError
    ELSE IF angle < thresholds["low"] THEN 1
    ELSE IF "medium" \notin DOMAIN thresholds THEN KeyError
    ELSE IF angle < thresholds["medium"] THEN 2
    ELSE IF "high" \notin DOMAIN thresholds THEN KeyError
    ELSE IF angle < thresholds["high"] THEN 3
    ELSE 4

AvgSide_LeftFirst(left, right) ==
    IF left # None THEN left
    ELSE IF right # None THEN right
    ELSE None

\* avg_shoulder / avg_elbow of calculate_reba_score.  The half of an odd sum
\* is dropped: thresholds are whole degrees, so no comparison of
\* _score_angle changes.
AvgSide(left, right) ==
    IF left # None /\ right # None THEN (left + right) \div 2
    ELSE IF left # None THEN left
    ELSE IF right # None THEN right
    ELSE None

\* The ordinal tuples <<neck, trunk, upper_arm, lower_arm>> for which the
\* IEEE-754 double sum weighted_score * 25 with the weights 0.20/0.25/0.20/0.15
\* falls just below the exact integer value (44.99999999999999 for 45, ...),
\* so that int() yields one less than the exact product.  The weight sets of
\* ConfigFiles other than this one are sums of exact binary fractions.
FloatShortTuples ==
    {<<0, 4, 1, 4>>, <<1, 4, 0, 4>>, <<2, 3, 1, 3>>,
     <<2, 3, 2, 3>>, <<2, 4, 1, 4>>, <<2, 4, 2, 0>>}

FloatShortfall(w, o) ==
    IF w = <<20, 25, 20, 15>> /\ o \in FloatShortTuples THEN 1 ELSE 0

\* int(weighted_score * 25): truncation of a non-negative double.
IntWeighted25(w, o) ==
    ((o[1] * w[1] + o[2] * w[2] + o[3] * w[3] + o[4] * w[4]) * 25) \div 100
        - FloatShortfall(w, o)

\* _calculate_confidence: <<available, total>> stands for available / total,
\* and <<0, 1>> for the 0.0 of an empty dict.
_calculate_confidence(ergonomic_features) ==
    LET available_features ==
            Cardinality({k \in DOMAIN ergonomic_features : ergonomic_features[k] # None})
        total_features == Cardinality(DOMAIN ergonomic_features)
    IN  IF total_features = 0 THEN <<0, 1>>
        ELSE <<available_features, total_features>>

Raised(e) == [raised |-> e]
IsRaised(r) == "raised" \in DOMAIN r

calculate_reba_score(self, ergonomic_features) ==
    LET neck_score == _score_angle(Get(ergonomic_features, "neck_flexion", None),
                                   Get(self.thresholds, "neck_flexion", DefaultNeck))
        trunk_score == _score_angle(Get(ergonomic_features, "trunk_flexion", None),
                                    Get(self.thresholds, "trunk_flexion", DefaultTrunk))
        avg_shoulder == AvgSide(Get(ergonomic_features, "left_shoulder_abduction", None),
                                Get(ergonomic_features, "right_shoulder_abduction", None))
        upper_arm_score == _score_angle(avg_shoulder,
                                Get(self.thresholds, "shoulder_abduction", DefaultShoulder))
        avg_elbow == AvgSide(Get(ergonomic_features, "left_elbow_flexion", None),
                             Get(ergonomic_features, "right_elbow_flexion", None))
        lower_arm_score == _score_angle(avg_elbow,
                                Get(self.thresholds, "elbow_flexion", DefaultElbow))
        w == <<Get(self.weights, "neck", 20), Get(self.weights, "trunk", 25),
               Get(self.weights, "upper_arm", 20), Get(self.weights, "lower_arm", 15)>>
        o == <<neck_score, trunk_score, upper_arm_score, lower_arm_score>>
        reba_score == IntWeighted25(w, o)
    IN  IF KeyError \in {neck_score, trunk_score, upper_arm_score, lower_arm_score}
        THEN Raised("KeyError")
        ELSE [score |-> Min(reba_score, 100),
              neck_score |-> neck_score,
              trunk_score |-> trunk_score,
              upper_arm_score |-> upper_arm_score,
              lower_arm_score |-> lower_arm_score,
              confidence |-> _calculate_confidence(ergonomic_features)]

\* int((group_a + group_b) * 12.5): exact in doubles.
Int12p5(n) == (n * 125) \div 10

calculate_rula_score(self, ergonomic_features) ==
    LET upper_arm_score == _score_angle(Get(ergonomic_features, "left_shoulder_abduction", None),
                                Get(self.thresholds, "shoulder_abduction", DefaultShoulder))
        lower_arm_score == _score_angle(Get(ergonomic_features, "left_elbow_flexion", None),
                                Get(self.thresholds, "elbow_flexion", DefaultElbow))
        neck_score == _score_angle(Get(ergonomic_features, "neck_flexion", None),
                                   Get(self.thresholds, "neck_flexion", DefaultNeck))
        trunk_score == _score_angle(Get(ergonomic_features, "trunk_flexion", None),
                                    Get(self.thresholds, "trunk_flexion", DefaultTrunk))
        group_a == upper_arm_score + lower_arm_score
        group_b == neck_score + trunk_score
        rula_score == Int12p5(group_a + group_b)
    IN  IF KeyError \in {upper_arm_score, lower_arm_score, neck_score, trunk_score}
        THEN Raised("KeyError")
        ELSE [score |-> Min(rula_score, 100),
              group_a_score |-> group_a,
              group_b_score |-> group_b,
              confidence |-> _calculate_confidence(ergonomic_features)]

get_risk_level_LastBand(self, score) ==
    LET hits == {i \in DOMAIN self.risk_levels :
                    self.risk_levels[i][2] <= score /\ score <= self.risk_levels[i][3]}
    IN  IF hits = {} THEN "unknown"
        ELSE self.risk_levels[CHOOSE i \in hits : \A j \in hits : i >= j][1]

\* get_risk_level: the bands in declared order, the first that contains score.
get_risk_level(self, score) ==
    LET hits == {i \in DOMAIN self.risk_levels :
                    self.risk_levels[i][2] <= score /\ score <= self.risk_levels[i][3]}
    IN  IF hits = {} THEN "unknown"
        ELSE self.risk_levels[CHOOSE i \in hits : \A j \in hits : i <= j][1]

get_traffic_light_Strict(score) ==
    IF score < 40 THEN "green"
    ELSE IF score < 60 THEN "yellow"
    ELSE "red"

get_traffic_light(score) ==
    IF score <= 40 THEN "green"
    ELSE IF score <= 60 THEN "yellow"
    ELSE "red"

(***************************************************************************)
(* compute_risk and the module-level scorer singleton.                     *)
(***************************************************************************)
AllNullResult ==
    [rula |-> None, reba |-> None, niosh |-> None, composite |-> None,
     traffic_light |-> NoneStr, risk_level |-> NoneStr]

ErrorResult(e) ==
    [rula |-> None, reba |-> None, niosh |-> None, composite |-> None,
     traffic_light |-> NoneStr, risk_level |-> NoneStr, error |-> e]

\* round(c, 2) of the confidence c = available / total, in hundredths: to
\* nearest, ties (eighths, exact in binary) to the even hundredth.
Round2(c) ==
    LET q == (100 * c[1]) \div c[2]
        r == (100 * c[1]) % c[2]
    IN  IF 2 * r < c[2] THEN q
        ELSE IF 2 * r > c[2] THEN q + 1
        ELSE IF q % 2 = 0 THEN q ELSE q + 1

CompositeOf_RoundHalfUp(reba, rula) == (reba + rula + 1) \div 2

\* int((reba + rula) / 2): truncation of a non-negative double.
CompositeOf(reba, rula) == (reba + rula) \div 2

\* `not ergonomic_features` on a dict.
IsFalsy_Never(d) == FALSE

IsFalsy(d) == DOMAIN d = {}

\* The body of compute_risk after scorer = get_scorer().
compute_risk_with(scorer, inp) ==
    LET ergonomic_features == Get(inp, "ergonomic_features", EmptyDict)
        reba_result == calculate_reba_score(scorer, ergonomic_features)
        rula_result == calculate_rula_score(scorer, ergonomic_features)
        composite_score == CompositeOf(reba_result.score, rula_result.score)
    IN  IF IsFalsy(ergonomic_features) THEN AllNullResult
        ELSE IF IsRaised(reba_result) THEN ErrorResult(reba_result.raised)
        ELSE IF IsRaised(rula_result) THEN ErrorResult(rula_result.raised)
        ELSE [rula |-> rula_result.score,
              reba |-> reba_result.score,
              niosh |-> None,
              composite |-> composite_score,
              confidence |-> Round2(reba_result.confidence),
              traffic_light |-> get_traffic_light(composite_score),
              risk_level |-> get_risk_level(scorer, composite_score),
              details |-> [reba |-> reba_result, rula |-> rula_result]]

\* Whether a compute_risk call on inp enters the try block, that is, calls
\* calculate_reba_score.
EntersScoring(inp) == ~IsFalsy(Get(inp, "ergonomic_features", EmptyDict))

ScorerAfter_ForgetsConfig(scorer, file) ==
    IF scorer.constructed THEN BiomechanicalScorer([exists |-> FALSE, doc |-> EmptyDict])
    ELSE IF InitRaises(file) THEN NoScorer
    ELSE BiomechanicalScorer(file)

\* get_scorer: the scorer a call works with, and whether constructing it raises.
ScorerAfter(scorer, file) ==
    IF scorer.constructed THEN scorer
    ELSE IF InitRaises(file) THEN NoScorer
    ELSE BiomechanicalScorer(file)

GetScorerRaises(scorer, file) == ~scorer.constructed /\ InitRaises(file)

(***************************************************************************)
(* Inputs of the risk-scoring specification.                               *)
(***************************************************************************)
AngleFeatures ==
    {"neck_flexion", "trunk_flexion", "left_shoulder_abduction",
     "right_shoulder_abduction", "left_elbow_flexion", "right_elbow_flexion"}

AngleValues == {15, 50, 140}

\* Eight-key records as calculate_ergonomic_features builds them: every angle
\* None or a value, the two ratios None or a value.
FullFeatureDicts ==
    {[k \in FeatureNames |->
        IF k \in AngleFeatures THEN a[k]
        ELSE IF k = "asymmetry_score" THEN r[1] ELSE r[2]] :
        a \in [AngleFeatures -> AngleValues \cup {None}],
        r \in {<<None, None>>, <<5, 1>>}}

\* Dicts that supply only some of the keys (scenario 3 of the specification
\* gives the six angles only).
PartialFeatureDicts ==
    {[neck_flexion |-> 35, trunk_flexion |-> 25,
      left_shoulder_abduction |-> 80, right_shoulder_abduction |-> 75,
      left_elbow_flexion |-> 90, right_elbow_flexion |-> 95],
     [neck_flexion |-> 50],
     [neck_flexion |-> None],
     [right_elbow_flexion |-> 140, asymmetry_score |-> None]}

RiskInputs ==
    {EmptyDict, [ergonomic_features |-> EmptyDict]} \cup
    {[ergonomic_features |-> f] : f \in FullFeatureDicts \cup PartialFeatureDicts}

(***************************************************************************)
(* SpecRisk: one process, one drawn compute_risk input, called MaxCalls    *)
(* times.                                                                  *)
(***************************************************************************)
NoResult == [pending |-> TRUE]
NoTensor == [ndim |-> 0, rows |-> <<>>]
NoLoader == [none |-> TRUE]
NoCall == [method |-> "none"]

InitRisk ==
    /\ config_file \in ConfigFiles
    /\ _scorer = NoScorer
    /\ inputs \in RiskInputs
    /\ risk_result = NoResult
    /\ scored = 0
    /\ model_output = NoTensor
    /\ keypoints = <<>>
    /\ features = EmptyDict
    /\ model_file = "missing"
    /\ _model_loader = NoLoader
    /\ _pose_pipeline = FALSE
    /\ response = NoResult
    /\ arrivals = <<>>
    /\ args = NoCall
    /\ ret = NoResult
    /\ image_paths = <<>>
    /\ results = <<>>
    /\ local_scorer = <<>>
    /\ constructions = 0
    /\ calls = 0
    /\ pc = "ready"

\* compute_risk(inputs), whole: get_scorer(), the empty check, the try block.
ComputeRisk ==
    /\ pc = "ready"
    /\ _scorer' = ScorerAfter(_scorer, config_file)
    /\ risk_result' =
        IF GetScorerRaises(_scorer, config_file) THEN Raised("AttributeError")
        ELSE compute_risk_with(_scorer', inputs)
    /\ scored' =
        IF ~GetScorerRaises(_scorer, config_file) /\ EntersScoring(inputs)
        THEN scored + 1 ELSE scored
    /\ calls' = calls + 1
    /\ pc' = "done"
    /\ UNCHANGED <<config_file, inputs, poseVars, serviceVars,
                   scorerVars, batchVars, concVars>>

\* The caller makes the same call again.
CallAgain ==
    /\ pc = "done"
    /\ calls < MaxCalls
    /\ pc' = "ready"
    /\ UNCHANGED <<config_file, riskVars, poseVars, serviceVars, scorerVars,
                   batchVars, concVars, calls>>

NextRisk == ComputeRisk \/ CallAgain

SpecRisk == InitRisk /\ [][NextRisk]_vars

(***************************************************************************)
(* SpecRiskRepeat: as SpecRisk, with compute_risk calls of other requests  *)
(* before and between the repeated calls.                                  *)
(***************************************************************************)
OtherInputs ==
    {[ergonomic_features |-> EmptyDict],
     [ergonomic_features |-> [neck_flexion |-> 50, trunk_flexion |-> 15]]}

\* compute_risk(other), whole, for another caller: it constructs the scorer
\* if none exists yet; its result goes to that caller.
OtherCall(other) ==
    /\ calls < MaxCalls
    /\ _scorer' = ScorerAfter(_scorer, config_file)
    /\ scored' = IF EntersScoring(other) THEN scored + 1 ELSE scored
    /\ calls' = calls + 1
    /\ UNCHANGED <<config_file, inputs, risk_result, poseVars, serviceVars,
                   scorerVars, batchVars, concVars, pc>>

NextRiskRepeat ==
    \/ ComputeRisk
    \/ CallAgain
    \/ \E other \in OtherInputs : OtherCall(other)

\* Eight-key records whose left and right sides agree, the partial dicts,
\* the empty dict and the missing key.
RepeatInputs ==
    {EmptyDict, [ergonomic_features |-> EmptyDict]} \cup
    {[ergonomic_features |-> f] :
        f \in PartialFeatureDicts \cup
              {g \in FullFeatureDicts :
                  /\ g["left_shoulder_abduction"] = g["right_shoulder_abduction"]
                  /\ g["left_elbow_flexion"] = g["right_elbow_flexion"]}}

InitRiskRepeat ==
    /\ config_file \in ConfigFiles
    /\ _scorer = NoScorer
    /\ inputs \in RepeatInputs
    /\ risk_result = NoResult
    /\ scored = 0
    /\ model_output = NoTensor
    /\ keypoints = <<>>
    /\ features = EmptyDict
    /\ model_file = "missing"
    /\ _model_loader = NoLoader
    /\ _pose_pipeline = FALSE
    /\ response = NoResult
    /\ arrivals = <<>>
    /\ args = NoCall
    /\ ret = NoResult
    /\ image_paths = <<>>
    /\ results = <<>>
    /\ local_scorer = <<>>
    /\ constructions = 0
    /\ calls = 0
    /\ pc = "ready"

SpecRiskRepeat == InitRiskRepeat /\ [][NextRiskRepeat]_vars

(***************************************************************************)
(* SpecConcurrent: compute_risk calls that run in threads of one process.  *)
(* get_scorer takes no lock, and a thread can be suspended between any two *)
(* of its statements (BiomechanicalScorer() reads a file).  pc,            *)
(* local_scorer and risk_result are per thread.                            *)
(***************************************************************************)
\* Bound: the number of threads.
MaxThreads == 2

Threads == 1..MaxThreads

ConcurrentInputs ==
    {[ergonomic_features |-> EmptyDict],
     [ergonomic_features |-> [neck_flexion |-> 50]],
     [ergonomic_features |-> [neck_flexion |-> 70, trunk_flexion |-> 15]]}

InitConcurrent ==
    /\ config_file \in AnyConfigFiles
    /\ _scorer = NoScorer
    /\ inputs \in ConcurrentInputs
    /\ risk_result = [t \in Threads |-> NoResult]
    /\ local_scorer = [t \in Threads |-> NoScorer]
    /\ constructions = 0
    /\ scored = 0
    /\ model_output = NoTensor
    /\ keypoints = <<>>
    /\ features = EmptyDict
    /\ model_file = "missing"
    /\ _model_loader = NoLoader
    /\ _pose_pipeline = FALSE
    /\ response = NoResult
    /\ arrivals = <<>>
    /\ args = NoCall
    /\ ret = NoResult
    /\ image_paths = <<>>
    /\ results = <<>>
    /\ calls = 0
    /\ pc = [t \in Threads |-> "called"]

\* get_scorer: `if _scorer is None:`
TestScorer(t) ==
    /\ pc[t] = "called"
    /\ pc' = [pc EXCEPT ![t] = IF _scorer.constructed THEN "return" ELSE "construct"]
    /\ UNCHANGED <<config_file, riskVars, poseVars, serviceVars, scorerVars,
                   batchVars, concVars, calls>>

\* get_scorer: BiomechanicalScorer() runs __init__ to its end, or raises.
ConstructScorer(t) ==
    /\ pc[t] = "construct"
    /\ IF InitRaises(config_file)
       THEN /\ risk_result' = [risk_result EXCEPT ![t] = Raised("AttributeError")]
            /\ pc' = [pc EXCEPT ![t] = "done"]
            /\ calls' = calls + 1
            /\ UNCHANGED <<local_scorer, constructions>>
       ELSE /\ local_scorer' = [local_scorer EXCEPT ![t] = BiomechanicalScorer(config_file)]
            /\ constructions' = constructions + 1
            /\ pc' = [pc EXCEPT ![t] = "assign"]
            /\ UNCHANGED <<risk_result, calls>>
    /\ UNCHANGED <<config_file, _scorer, inputs, scored, poseVars, serviceVars,
                   scorerVars, batchVars>>

\* get_scorer: `_scorer = ` the scorer just constructed.
AssignScorer(t) ==
    /\ pc[t] = "assign"
    /\ _scorer' = local_scorer[t]
    /\ pc' = [pc EXCEPT ![t] = "return"]
    /\ UNCHANGED <<config_file, inputs, risk_result, scored, poseVars, serviceVars,
                   scorerVars, batchVars, concVars, calls>>

\* get_scorer: `return _scorer`, received by `scorer = get_scorer()`.
ReturnScorer(t) ==
    /\ pc[t] = "return"
    /\ local_scorer' = [local_scorer EXCEPT ![t] = _scorer]
    /\ pc' = [pc EXCEPT ![t] = "score"]
    /\ UNCHANGED <<config_file, riskVars, poseVars, serviceVars, scorerVars,
                   batchVars, constructions, calls>>

\* The rest of compute_risk: it reads thresholds, weights and bands from
\* its local scorer.
ScoreFeatures(t) ==
    /\ pc[t] = "score"
    /\ risk_result' = [risk_result EXCEPT ![t] = compute_risk_with(local_scorer[t], inputs)]
    /\ scored' = IF EntersScoring(inputs) THEN scored + 1 ELSE scored
    /\ calls' = calls + 1
    /\ pc' = [pc EXCEPT ![t] = "done"]
    /\ UNCHANGED <<config_file, _scorer, inputs, poseVars, serviceVars,
                   scorerVars, batchVars, concVars>>

NextConcurrent ==
    \E t \in Threads :
        \/ TestScorer(t)
        \/ ConstructScorer(t)
        \/ AssignScorer(t)
        \/ ReturnScorer(t)
        \/ ScoreFeatures(t)

SpecConcurrent == InitConcurrent /\ [][NextConcurrent]_vars

(***************************************************************************)
(* SpecRiskAny: as SpecRisk, the configuration file being any file the     *)
(* process can find, the empty document included.                          *)
(***************************************************************************)
InitRiskAny ==
    /\ config_file \in AnyConfigFiles
    /\ _scorer = NoScorer
    /\ inputs \in RiskInputs
    /\ risk_result = NoResult
    /\ scored = 0
    /\ model_output = NoTensor
    /\ keypoints = <<>>
    /\ features = EmptyDict
    /\ model_file = "missing"
    /\ _model_loader = NoLoader
    /\ _pose_pipeline = FALSE
    /\ response = NoResult
    /\ arrivals = <<>>
    /\ args = NoCall
    /\ ret = NoResult
    /\ image_paths = <<>>
    /\ results = <<>>
    /\ local_scorer = <<>>
    /\ constructions = 0
    /\ calls = 0
    /\ pc = "ready"

SpecRiskAny == InitRiskAny /\ [][NextRisk]_vars

(***************************************************************************)
(* SpecScorer: one method of a constructed BiomechanicalScorer, called     *)
(* directly on drawn arguments.                                            *)
(***************************************************************************)
\* Bounds: the largest angle in whole degrees, and the largest score (the
\* scores compute_risk passes on are at most 100).
MaxAngle == 180
MaxScore == 100

\* Threshold entries: the defaults, those of FullDoc, equal and zero
\* thresholds, thresholds out of order, and an entry without "high".
ThresholdEntries ==
    {DefaultNeck, DefaultShoulder, DefaultElbow, Th(10, 20, 30), Th(0, 30, 30),
     Th(50, 20, 30), [low |-> 20, medium |-> 45]}

ScorerCalls ==
    {[method |-> "_score_angle", angle |-> a, thresholds |-> t] :
        a \in {None} \cup (0..MaxAngle), t \in ThresholdEntries}
    \cup
    {[method |-> "get_risk_level", score |-> s] : s \in 0..MaxScore}

InitScorer ==
    /\ config_file \in ConfigFiles
    /\ _scorer = BiomechanicalScorer(config_file)
    /\ args \in ScorerCalls
    /\ ret = NoResult
    /\ inputs = EmptyDict
    /\ risk_result = NoResult
    /\ scored = 0
    /\ model_output = NoTensor
    /\ keypoints = <<>>
    /\ features = EmptyDict
    /\ model_file = "missing"
    /\ _model_loader = NoLoader
    /\ _pose_pipeline = FALSE
    /\ response = NoResult
    /\ arrivals = <<>>
    /\ image_paths = <<>>
    /\ results = <<>>
    /\ local_scorer = <<>>
    /\ constructions = 0
    /\ calls = 0
    /\ pc = "ready"

\* self._score_angle(angle, thresholds)
ScoreAngle ==
    /\ pc = "ready"
    /\ args.method = "_score_angle"
    /\ ret' = _score_angle(args.angle, args.thresholds)
    /\ pc' = "done"
    /\ UNCHANGED <<config_file, riskVars, poseVars, serviceVars, args, batchVars,
                   concVars, calls>>

\* self.get_risk_level(score)
GetRiskLevel ==
    /\ pc = "ready"
    /\ args.method = "get_risk_level"
    /\ ret' = get_risk_level(_scorer, args.score)
    /\ pc' = "done"
    /\ UNCHANGED <<config_file, riskVars, poseVars, serviceVars, args, batchVars,
                   concVars, calls>>

NextScorer == ScoreAngle \/ GetRiskLevel

SpecScorer == InitScorer /\ [][NextScorer]_vars

(***************************************************************************)
(* PosePipeline: keypoint decoding and ergonomic feature extraction.       *)
(***************************************************************************)
\* ModelLoader._get_default_config, the part the pipeline reads: no
\* "keypoint_names" entry.
ModelLoader_get_default_config ==
    [pose_estimation |-> [confidence_threshold |-> 3, num_keypoints |-> 17]]

\* ModelLoader._load_config
ModelLoader_load_config(file) ==
    IF ~file.exists THEN ModelLoader_get_default_config ELSE file.doc

\* f"keypoint_{idx}"
SynthName(idx) == "keypoint_" \o ToString(idx)

Keypoint_Swapped(idx, row, keypoint_names) ==
    [id |-> idx,
     name |-> IF idx < Len(keypoint_names) THEN keypoint_names[idx + 1]
              ELSE SynthName(idx),
     x |-> row[1],
     y |-> row[2],
     confidence |-> row[3]]

\* The keypoint dict built for tensor row idx = (y, x, confidence).
Keypoint(idx, row, keypoint_names) ==
    [id |-> idx,
     name |-> IF idx < Len(keypoint_names) THEN keypoint_names[idx + 1]
              ELSE SynthName(idx),
     x |-> row[2],
     y |-> row[1],
     confidence |-> row[3]]

Passes_Strict(confidence, confidence_threshold) == confidence > confidence_threshold

\* The test `confidence >= confidence_threshold` of extract_keypoints.
Passes(confidence, confidence_threshold) == confidence >= confidence_threshold

IsRank3_OrMore(ndim) == ndim >= 2

\* The test `model_output.ndim == 3` of extract_keypoints.
IsRank3(ndim) == ndim = 3

\* extract_keypoints: model_output.rows[idx + 1] is model_output[0, idx, :],
\* the triple (y, x, confidence).
extract_keypoints(config, output) ==
    LET pose_config == Get(config, "pose_estimation", EmptyDict)
        confidence_threshold == Get(pose_config, "confidence_threshold", 3)
        keypoint_names == Get(pose_config, "keypoint_names", <<>>)
        idxs == [i \in 1..Len(output.rows) |-> i - 1]
        kept == SelectSeq(idxs,
                    LAMBDA idx : Passes(output.rows[idx + 1][3], confidence_threshold))
    IN  IF IsRank3(output.ndim)
        THEN [j \in 1..Len(kept) |-> Keypoint(kept[j], output.rows[kept[j] + 1], keypoint_names)]
        ELSE <<>>

NoKeypoint == [none |-> TRUE]
Found(kp) == "none" \notin DOMAIN kp

get_keypoint_by_name_Fallback(kps, name) ==
    LET hits == {i \in DOMAIN kps : kps[i].name = name}
    IN  IF hits = {} THEN (IF kps = <<>> THEN NoKeypoint ELSE kps[1])
        ELSE kps[CHOOSE i \in hits : \A j \in hits : i <= j]

get_keypoint_by_name_SkipLast(kps, name) ==
    LET hits == {i \in DOMAIN kps : i < Len(kps) /\ kps[i].name = name}
    IN  IF hits = {} THEN NoKeypoint
        ELSE kps[CHOOSE i \in hits : \A j \in hits : i <= j]

\* get_keypoint_by_name: the first keypoint of that name, or None.
get_keypoint_by_name(kps, name) ==
    LET hits == {i \in DOMAIN kps : kps[i].name = name}
    IN  IF hits = {} THEN NoKeypoint
        ELSE kps[CHOOSE i \in hits : \A j \in hits : i <= j]

(***************************************************************************)
(* Angles in whole degrees (the floor of the double the code computes).    *)
(* TanTab[d + 1] is floor(tan(d degrees) * 100000) for d in 0..89.         *)
(***************************************************************************)
TanTab ==
    <<0, 1745, 3492, 5240, 6992, 8748, 10510, 12278, 14054, 15838,
      17632, 19438, 21255, 23086, 24932, 26794, 28674, 30573, 32491, 34432,
      36397, 38386, 40402, 42447, 44522, 46630, 48773, 50952, 53170, 55430,
      57735, 60086, 62486, 64940, 67450, 70020, 72654, 75355, 78128, 80978,
      83909, 86928, 90040, 93251, 96568, 100000, 103553, 107236, 111061, 115036,
      119175, 123489, 127994, 132704, 137638, 142814, 148256, 153986, 160033, 166427,
      173205, 180404, 188072, 196261, 205030, 214450, 224603, 235585, 247508, 260508,
      274747, 290421, 307768, 327085, 348741, 373205, 401078, 433147, 470463, 514455,
      567128, 631375, 711536, 814434, 951436, 1143005, 1430066, 1908113, 2863625, 5728996>>

Abs(n) == IF n < 0 THEN -n ELSE n

\* floor(degrees(arctan(a / b))) for a >= 0, b > 0.
ArctanDeg(a, b) ==
    CHOOSE d \in 0..89 :
        /\ TanTab[d + 1] * b <= a * 100000
        /\ (d = 89 \/ TanTab[d + 2] * b > a * 100000)

\* floor(degrees(abs(arctan2(dy, dx)))), with a = abs(dy): in 0..180, and
\* arctan2(0, 0) = 0.
AbsArctan2Deg(a, dx) ==
    IF a = 0 THEN (IF dx >= 0 THEN 0 ELSE 180)
    ELSE IF dx = 0 THEN 90
    ELSE IF dx > 0 THEN ArctanDeg(a, dx)
    ELSE IF a = -dx THEN 135
    ELSE 179 - ArctanDeg(a, -dx)

\* floor(degrees(abs(arctan2(dy, dx) - pi / 2))): in 0..269.
TrunkDeg(dy, dx) ==
    IF dy > 0 THEN AbsArctan2Deg(Abs(dx), dy)
    ELSE IF dy = 0 THEN 90
    ELSE 90 + AbsArctan2Deg(-dy, dx)

\* calculate_angle(p1, p2, p3), points as <<x, y>> in twentieths: the angle at
\* p2, arccos(v1.v2 / (|v1||v2| + 1e-6)).  The 1e-6 makes a zero vector give
\* exactly 90 and pulls every other angle toward 90: collinear vectors give
\* just above 0 or just below 180 (a whole degree off when |v1||v2| is at
\* most 0.0065), an exact 135 gives just below 135; elsewhere the whole
\* degree is that of the exact angle, arctan2(|v1 x v2|, v1.v2).
calculate_angle(p1, p2, p3) ==
    LET v1 == <<p1[1] - p2[1], p1[2] - p2[2]>>
        v2 == <<p3[1] - p2[1], p3[2] - p2[2]>>
        dot == v1[1] * v2[1] + v1[2] * v2[2]
        cross == Abs(v1[1] * v2[2] - v1[2] * v2[1])
        n2 == (v1[1] * v1[1] + v1[2] * v1[2]) * (v2[1] * v2[1] + v2[2] * v2[2])
        near == IF n2 <= 6 THEN 1 ELSE 0
    IN  IF n2 = 0 THEN 90
        ELSE IF cross = 0 THEN (IF dot > 0 THEN near ELSE 179 - near)
        ELSE IF dot < 0 /\ cross = -dot THEN 134
        ELSE AbsArctan2Deg(cross, dot)

Pt(kp) == <<kp.x, kp.y>>

\* calculate_ergonomic_features.  Midpoints are doubled (arctan2 depends on
\* the direction only); asymmetry_score is abs(dy) * 100 with y in twentieths;
\* reach_distance_ratio is in hundredths.
calculate_ergonomic_features(kps) ==
    LET nose == get_keypoint_by_name(kps, "nose")
        left_shoulder == get_keypoint_by_name(kps, "left_shoulder")
        right_shoulder == get_keypoint_by_name(kps, "right_shoulder")
        left_elbow == get_keypoint_by_name(kps, "left_elbow")
        right_elbow == get_keypoint_by_name(kps, "right_elbow")
        left_wrist == get_keypoint_by_name(kps, "left_wrist")
        right_wrist == get_keypoint_by_name(kps, "right_wrist")
        left_hip == get_keypoint_by_name(kps, "left_hip")
        right_hip == get_keypoint_by_name(kps, "right_hip")
        mid_shoulder_x2 == left_shoulder.x + right_shoulder.x
        mid_shoulder_y2 == left_shoulder.y + right_shoulder.y
        mid_hip_x2 == left_hip.x + right_hip.x
        mid_hip_y2 == left_hip.y + right_hip.y
        shoulder_width == Abs(left_shoulder.x - right_shoulder.x)
        reach_distance == Abs(left_wrist.x - left_shoulder.x)
    IN  [neck_flexion |->
            IF Found(nose) /\ Found(left_shoulder) /\ Found(right_shoulder)
            THEN AbsArctan2Deg(Abs(2 * nose.y - mid_shoulder_y2),
                               2 * nose.x - mid_shoulder_x2)
            ELSE None,
         trunk_flexion |->
            IF Found(left_shoulder) /\ Found(left_hip)
               /\ Found(right_shoulder) /\ Found(right_hip)
            THEN TrunkDeg(mid_shoulder_y2 - mid_hip_y2, mid_shoulder_x2 - mid_hip_x2)
            ELSE None,
         left_shoulder_abduction |->
            IF Found(left_shoulder) /\ Found(left_elbow) /\ Found(left_hip)
            THEN calculate_angle(Pt(left_hip), Pt(left_shoulder), Pt(left_elbow))
            ELSE None,
         right_shoulder_abduction |->
            IF Found(right_shoulder) /\ Found(right_elbow) /\ Found(right_hip)
            THEN calculate_angle(Pt(right_hip), Pt(right_shoulder), Pt(right_elbow))
            ELSE None,
         left_elbow_flexion |->
            IF Found(left_shoulder) /\ Found(left_elbow) /\ Found(left_wrist)
            THEN calculate_angle(Pt(left_shoulder), Pt(left_elbow), Pt(left_wrist))
            ELSE None,
         right_elbow_flexion |->
            IF Found(right_shoulder) /\ Found(right_elbow) /\ Found(right_wrist)
            THEN calculate_angle(Pt(right_shoulder), Pt(right_elbow), Pt(right_wrist))
            ELSE None,
         asymmetry_score |->
            IF Found(left_shoulder) /\ Found(right_shoulder)
            THEN Abs(left_shoulder.y - right_shoulder.y) * 5
            ELSE None,
         reach_distance_ratio |->
            IF Found(left_shoulder) /\ Found(right_shoulder) /\ Found(left_wrist)
               /\ shoulder_width > 0
            THEN (100 * reach_distance) \div shoulder_width
            ELSE None]

(***************************************************************************)
(* Inputs of the pose specification.                                       *)
(***************************************************************************)
\* Bounds: rows of the largest tensor, and the largest tensor rank.
MaxK == 9
MaxRank == 4

NineNames ==
    <<"nose", "left_shoulder", "right_shoulder", "left_elbow", "right_elbow",
      "left_wrist", "right_wrist", "left_hip", "right_hip">>

ThreeNames == <<"nose", "left_shoulder", "right_shoulder">>

\* A name list that repeats a name and holds a name of the synthesized form.
RepeatingNames == <<"nose", "nose", "keypoint_3">>

\* The file is absent (threshold 0.3, no names), or its pose_estimation
\* section gives a threshold, a name list, both or neither.
PoseConfigFiles ==
    {[exists |-> FALSE, doc |-> EmptyDict]} \cup
    {[exists |-> TRUE, doc |-> [pose_estimation |-> pe]] :
        pe \in {[confidence_threshold |-> 4, keypoint_names |-> NineNames],
                [confidence_threshold |-> 4, keypoint_names |-> RepeatingNames],
                [keypoint_names |-> NineNames],
                [confidence_threshold |-> 4, keypoint_names |-> ThreeNames],
                [confidence_threshold |-> 5, keypoint_names |-> NineNames],
                EmptyDict}}

\* Coordinates <<x, y>> in twentieths, in the order of NineNames.
\* MockPose is mock_keypoints of tools/test_ml_integration.py.
MockPose ==
    << <<10, 4>>, <<8, 7>>, <<12, 7>>, <<6, 10>>, <<14, 10>>,
       <<5, 13>>, <<15, 13>>, <<8, 12>>, <<12, 12>> >>

\* Seen from the side: both shoulders at the same x.
ProfilePose ==
    << <<10, 4>>, <<10, 7>>, <<10, 7>>, <<6, 10>>, <<14, 10>>,
       <<5, 13>>, <<15, 13>>, <<8, 12>>, <<12, 12>> >>

\* Every keypoint at the same point.
PointPose == [i \in 1..9 |-> <<10, 10>>]

\* Leaning, left forearm folded back onto the upper arm (wrist at the shoulder).
BentPose ==
    << <<14, 6>>, <<9, 8>>, <<12, 7>>, <<9, 12>>, <<15, 9>>,
       <<9, 8>>, <<17, 7>>, <<10, 14>>, <<12, 14>> >>

Poses == {MockPose, ProfilePose, PointPose, BentPose}

ConfValues == {3, 4}

\* The tensor of k rows (y, x, confidence) of a pose; rows past the ninth
\* lie at the origin.
Tensor(rank, pose, k, confs) ==
    [ndim |-> rank,
     rows |-> [i \in 1..k |->
                IF i <= 9 THEN <<pose[i][2], pose[i][1], confs[i]>>
                ELSE <<0, 0, confs[i]>>]]

PoseInputs ==
    {Tensor(3, pose, k, confs) :
        pose \in Poses, k \in {0, 3, MaxK}, confs \in [1..MaxK -> ConfValues]}
    \cup
    {Tensor(rank, pose, k, [i \in 1..MaxK |-> c]) :
        rank \in (0..MaxRank) \ {3}, pose \in Poses, k \in {0, MaxK}, c \in ConfValues}

(***************************************************************************)
(* SpecPose: one drawn tensor, decoded and then measured.                  *)
(***************************************************************************)
InitPose ==
    /\ config_file \in PoseConfigFiles
    /\ model_output \in PoseInputs
    /\ keypoints = <<>>
    /\ features = EmptyDict
    /\ _scorer = NoScorer
    /\ inputs = EmptyDict
    /\ risk_result = NoResult
    /\ scored = 0
    /\ model_file = "missing"
    /\ _model_loader = NoLoader
    /\ _pose_pipeline = FALSE
    /\ response = NoResult
    /\ arrivals = <<>>
    /\ args = NoCall
    /\ ret = NoResult
    /\ image_paths = <<>>
    /\ results = <<>>
    /\ local_scorer = <<>>
    /\ constructions = 0
    /\ calls = 0
    /\ pc = "ready"

\* keypoints = self.extract_keypoints(model_output)
ExtractKeypoints ==
    /\ pc = "ready"
    /\ keypoints' = extract_keypoints(ModelLoader_load_config(config_file), model_output)
    /\ pc' = "decoded"
    /\ UNCHANGED <<config_file, riskVars, model_output, features, serviceVars,
                   scorerVars, batchVars, concVars, calls>>

\* ergonomic_features = self.calculate_ergonomic_features(keypoints)
CalculateErgonomicFeatures ==
    /\ pc = "decoded"
    /\ features' = calculate_ergonomic_features(keypoints)
    /\ pc' = "done"
    /\ UNCHANGED <<config_file, riskVars, model_output, keypoints, serviceVars,
                   scorerVars, batchVars, concVars, calls>>

NextPose == ExtractKeypoints \/ CalculateErgonomicFeatures

SpecPose == InitPose /\ [][NextPose]_vars

(***************************************************************************)
(* ModelLoader, posture_estimation and the POST /process/image handler.    *)
(***************************************************************************)
\* Bound: requests served in one run of the service.
MaxRequests == 2

\* Latencies in milliseconds that perf_counter can measure.
Latencies == {5, 8}

\* ModelLoader.__init__: session None, empty metrics.
ModelLoader ==
    [session |-> FALSE,
     metrics |-> [latency_p50 |-> 0, latency_p95 |-> 0, latency_p99 |-> 0,
                  inference_count |-> 0, latencies |-> <<>>]]

\* load_model by what the model file is: "missing" (path does not exist),
\* "unloadable" (InferenceSession raises), "warmup_fails" (the session is
\* created, hashing or warm-up raises), "ok".  <<session, returned>>.
load_model(file) ==
    CASE file = "missing" -> <<FALSE, FALSE>>
      [] file = "unloadable" -> <<FALSE, FALSE>>
      [] file = "warmup_fails" -> <<TRUE, FALSE>>
      [] file = "ok" -> <<TRUE, TRUE>>

Smallest(values) == CHOOSE v \in values : \A w \in values : v <= w

Occurrences(seq, v) == Cardinality({i \in DOMAIN seq : seq[i] = v})

\* The elements of seq that are in values, in ascending order: one run per
\* value, as long as the value occurs.
RECURSIVE Runs(_, _)
Runs(seq, values) ==
    IF values = {} THEN <<>>
    ELSE [i \in 1..Occurrences(seq, Smallest(values)) |-> Smallest(values)]
             \o Runs(seq, values \ {Smallest(values)})

\* sorted(latencies)
Sorted(seq) == Runs(seq, {seq[i] : i \in DOMAIN seq})

LastN_KeepsOldest(seq, n) ==
    IF Len(seq) <= n THEN seq ELSE SubSeq(seq, 1, n)

\* seq[-n:]
LastN(seq, n) ==
    IF Len(seq) <= n THEN seq ELSE SubSeq(seq, Len(seq) - n + 1, Len(seq))

\* update_metrics: int(n * 0.5), int(n * 0.95), int(n * 0.99) index the
\* sorted window from 0.
update_metrics(metrics, latency_ms) ==
    LET appended == Append(metrics.latencies, latency_ms)
        latencies == IF Len(appended) > 1000 THEN LastN(appended, 1000) ELSE appended
        sorted_latencies == Sorted(latencies)
        n == Len(sorted_latencies)
    IN  [latency_p50 |-> sorted_latencies[(n * 50) \div 100 + 1],
         latency_p95 |-> sorted_latencies[(n * 95) \div 100 + 1],
         latency_p99 |-> sorted_latencies[(n * 99) \div 100 + 1],
         inference_count |-> metrics.inference_count + 1,
         latencies |-> latencies]

\* get_metrics: throughput_fps in whole frames per second (1000 / p50 is a
\* whole number for every latency of Latencies).
get_metrics(metrics) ==
    [inference_count |-> metrics.inference_count,
     latency_p50_ms |-> metrics.latency_p50,
     latency_p95_ms |-> metrics.latency_p95,
     latency_p99_ms |-> metrics.latency_p99,
     throughput_fps |-> IF metrics.latency_p50 > 0 THEN 1000 \div metrics.latency_p50 ELSE 0]

\* What session.run returns, or RunRaises when it raises.
RunRaises == [raises |-> TRUE]
RunReturned(out) == "raises" \notin DOMAIN out

\* A request: whether cv2.imread can read the uploaded file, and what the
\* inference session does with it.
Request(image_ok, out) == [image_ok |-> image_ok, out |-> out]

\* run_inference returned: both preprocess_image and session.run succeeded
\* (the pipeline exists only with a session, so the session check passes).
InferenceRan(req) == req.image_ok /\ RunReturned(req.out)

\* `y, x, confidence = model_output[0, idx, :]` raises ValueError when the
\* rows of a rank-3 tensor are not triples.
DecodeRaises(output) ==
    IsRank3(output.ndim) /\ \E i \in DOMAIN output.rows : Len(output.rows[i]) # 3

PipelineFailure_KeepsFeatureKeys(e) ==
    [success |-> FALSE, error |-> e, keypoints |-> <<>>,
     ergonomic_features |-> [k \in FeatureNames |-> None],
     num_keypoints_detected |-> 0]

PipelineFailure(e) ==
    [success |-> FALSE, error |-> e, keypoints |-> <<>>,
     ergonomic_features |-> EmptyDict, num_keypoints_detected |-> 0]

\* PosePipeline.process_image of a pipeline whose loader has a session.
pipeline_process_image(config, req) ==
    IF ~req.image_ok THEN PipelineFailure("ValueError")
    ELSE IF ~RunReturned(req.out) THEN PipelineFailure("RuntimeError")
    ELSE IF DecodeRaises(req.out) THEN PipelineFailure("ValueError")
    ELSE LET kps == extract_keypoints(config, req.out)
         IN  [success |-> TRUE,
              keypoints |-> kps,
              ergonomic_features |-> calculate_ergonomic_features(kps),
              num_keypoints_detected |-> Len(kps)]

\* PosePipeline.process_image of any pipeline: run_inference raises
\* RuntimeError when the loader has no session.
process_image(session, config, req) ==
    IF req.image_ok /\ ~session THEN PipelineFailure("RuntimeError")
    ELSE pipeline_process_image(config, req)

\* estimate_posture, given what process_image returned and the metrics after it.
estimate_posture(pipeline, result, metrics) ==
    IF ~pipeline
    THEN [postures |-> <<>>, metrics |-> EmptyDict, warning |-> "Model not loaded"]
    ELSE IF result.success
    THEN [postures |-> << [keypoints |-> result.keypoints,
                           ergonomic_features |-> result.ergonomic_features,
                           num_keypoints |-> result.num_keypoints_detected] >>,
          metrics |-> get_metrics(metrics)]
    ELSE [postures |-> <<>>, metrics |-> EmptyDict, error |-> result.error]

\* get_model_info: loaded is decided by the loader's session.
get_model_info(loader) ==
    IF "none" \in DOMAIN loader \/ ~loader.session
    THEN [loaded |-> FALSE, message |-> "No model loaded"]
    ELSE [loaded |-> TRUE, metrics |-> get_metrics(loader.metrics)]

\* The risk_result the handler starts with and keeps when there is no posture.
RouterDefaultRisk == [rula |-> None, reba |-> None, composite |-> None]

\* What the handler passes to compute_risk.
RouterRiskInputs(posture_result) ==
    [ergonomic_features |->
        Get(posture_result.postures[1], "ergonomic_features", EmptyDict)]

(***************************************************************************)
(* Spec: the service.  Start-up runs initialize_models, then requests are  *)
(* served one at a time.                                                   *)
(***************************************************************************)
\* Documents with a pose_estimation section, with and without scoring sections.
ServiceDoc == [pose_estimation |-> [confidence_threshold |-> 4, keypoint_names |-> NineNames]]

ServiceFullDoc ==
    [pose_estimation |-> [keypoint_names |-> NineNames],
     ergonomic_thresholds |-> FullDoc.ergonomic_thresholds,
     risk_scoring |-> FullDoc.risk_scoring]

ServiceConfigFiles ==
    {[exists |-> FALSE, doc |-> EmptyDict],
     [exists |-> TRUE, doc |-> ServiceDoc],
     [exists |-> TRUE, doc |-> ServiceFullDoc]}

ModelFiles == {"missing", "unloadable", "warmup_fails", "ok"}

AllAt(c) == [i \in 1..MaxK |-> c]

\* Nose and shoulders confident, every other row below every threshold.
UpperOnly == [i \in 1..MaxK |-> IF i <= 3 THEN 4 ELSE 2]

ServiceOutputs ==
    {Tensor(2, MockPose, MaxK, AllAt(4)),
     Tensor(3, MockPose, MaxK, AllAt(4)),
     Tensor(3, MockPose, MaxK, UpperOnly),
     Tensor(3, BentPose, MaxK, AllAt(4)),
     Tensor(3, ProfilePose, MaxK, AllAt(3)),
     Tensor(3, MockPose, 0, AllAt(4)),
     RunRaises}

Requests ==
    {Request(TRUE, out) : out \in ServiceOutputs} \cup {Request(FALSE, RunRaises)}

Init ==
    /\ config_file \in ServiceConfigFiles
    /\ model_file \in ModelFiles
    /\ _model_loader = NoLoader
    /\ _pose_pipeline = FALSE
    /\ _scorer = NoScorer
    /\ inputs = EmptyDict
    /\ risk_result = NoResult
    /\ scored = 0
    /\ model_output = NoTensor
    /\ keypoints = <<>>
    /\ features = EmptyDict
    /\ response = NoResult
    /\ arrivals = <<>>
    /\ args = NoCall
    /\ ret = NoResult
    /\ image_paths = <<>>
    /\ results = <<>>
    /\ local_scorer = <<>>
    /\ constructions = 0
    /\ calls = 0
    /\ pc = "starting"

\* posture_estimation.initialize_models, run by lifespan at start-up (and a
\* no-op whenever it runs again).
InitializeModels ==
    /\ pc \in {"starting", "serving"}
    /\ IF _model_loader = NoLoader
       THEN LET loaded == load_model(model_file) IN
            /\ _model_loader' = [ModelLoader EXCEPT !.session = loaded[1]]
            /\ _pose_pipeline' = loaded[2]
       ELSE UNCHANGED <<_model_loader, _pose_pipeline>>
    /\ pc' = "serving"
    /\ UNCHANGED <<config_file, riskVars, poseVars, model_file, response,
                   arrivals, scorerVars, batchVars, concVars, calls>>

\* POST /process/image, whole: estimate_posture (process_image, with
\* update_metrics once inference has run), then compute_risk on the first
\* posture's features, if there is one.
ProcessImage(req, latency_ms) ==
    /\ pc = "serving"
    /\ calls < MaxRequests
    /\ LET config == ModelLoader_load_config(config_file)
           ran == _pose_pipeline /\ InferenceRan(req)
           metrics == IF ran THEN update_metrics(_model_loader.metrics, latency_ms)
                      ELSE _model_loader.metrics
           result == pipeline_process_image(config, req)
           posture_result == estimate_posture(_pose_pipeline, result, metrics)
           has_posture == Len(posture_result.postures) > 0
           risk_inputs == RouterRiskInputs(posture_result)
           raises == has_posture /\ GetScorerRaises(_scorer, config_file)
       IN
       /\ _model_loader' = [_model_loader EXCEPT !.metrics = metrics]
       /\ arrivals' = IF ran THEN Append(arrivals, latency_ms) ELSE arrivals
       /\ model_output' = IF ran THEN req.out ELSE NoTensor
       /\ keypoints' = IF ran THEN result.keypoints ELSE <<>>
       /\ features' = IF ran THEN result.ergonomic_features ELSE EmptyDict
       /\ _scorer' = IF has_posture THEN ScorerAfter(_scorer, config_file) ELSE _scorer
       /\ inputs' = IF has_posture THEN risk_inputs ELSE EmptyDict
       /\ risk_result' =
            IF ~has_posture THEN RouterDefaultRisk
            ELSE IF raises THEN Raised("AttributeError")
            ELSE compute_risk_with(_scorer', risk_inputs)
       /\ scored' = IF has_posture /\ ~raises /\ EntersScoring(risk_inputs)
                    THEN scored + 1 ELSE scored
       /\ response' =
            IF raises THEN [status |-> "error", error |-> "AttributeError"]
            ELSE [status |-> "success",
                  posture |-> posture_result,
                  risk_assessment |-> risk_result']
    /\ calls' = calls + 1
    /\ UNCHANGED <<config_file, model_file, _pose_pipeline, scorerVars,
                   batchVars, concVars, pc>>

\* GET /health: the model status as get_model_info reports it.
Health ==
    /\ pc = "serving"
    /\ LET model_info == get_model_info(_model_loader) IN
       response' =
            IF model_info.loaded
            THEN [status |-> "ok",
                  ml |-> [model_loaded |-> TRUE, metrics |-> model_info.metrics]]
            ELSE [status |-> "ok",
                  ml |-> [model_loaded |-> FALSE, message |-> model_info.message]]
    /\ UNCHANGED <<config_file, riskVars, poseVars, model_file, _model_loader,
                   _pose_pipeline, arrivals, scorerVars, batchVars, concVars,
                   calls, pc>>

Next ==
    \/ InitializeModels
    \/ \E req \in Requests, latency_ms \in Latencies : ProcessImage(req, latency_ms)
    \/ Health

Spec == Init /\ [][Next]_vars

(***************************************************************************)
(* SpecBatch: a PosePipeline built on a loader whose load_model has run    *)
(* (with or without success), and one process_batch call.                  *)
(***************************************************************************)
\* Bound: the longest batch.
MaxBatch == 3

\* A rank-3 tensor of shape [1, 1, 2].
MalformedTensor == [ndim |-> 3, rows |-> << <<4, 10>> >>]

BatchRequests ==
    {Request(TRUE, Tensor(3, MockPose, MaxK, AllAt(4))),
     Request(TRUE, Tensor(3, MockPose, MaxK, UpperOnly)),
     Request(TRUE, MalformedTensor),
     Request(TRUE, RunRaises),
     Request(FALSE, RunRaises)}

Batches == UNION {[1..n -> BatchRequests] : n \in 0..MaxBatch}

InitBatch ==
    /\ config_file \in {[exists |-> FALSE, doc |-> EmptyDict],
                        [exists |-> TRUE, doc |-> ServiceDoc]}
    /\ model_file \in {"missing", "ok"}
    /\ _model_loader = [ModelLoader EXCEPT !.session = load_model(model_file)[1]]
    /\ _pose_pipeline = TRUE
    /\ image_paths \in Batches
    /\ results = <<>>
    /\ _scorer = NoScorer
    /\ inputs = EmptyDict
    /\ risk_result = NoResult
    /\ scored = 0
    /\ model_output = NoTensor
    /\ keypoints = <<>>
    /\ features = EmptyDict
    /\ response = NoResult
    /\ arrivals = <<>>
    /\ args = NoCall
    /\ ret = NoResult
    /\ local_scorer = <<>>
    /\ constructions = 0
    /\ calls = 0
    /\ pc = "ready"

AppendResult_SkipFailures(list, result) ==
    IF result.success THEN Append(list, result) ELSE list

\* results.append(result)
AppendResult(list, result) == Append(list, result)

\* One turn of the loop of process_batch: process_image on the next path
\* (update_metrics runs once session.run has returned), and the append.
\* calls counts the paths taken from image_paths.
ProcessBatchImage(latency_ms) ==
    /\ pc = "ready"
    /\ calls < Len(image_paths)
    /\ LET req == image_paths[calls + 1]
           ran == _model_loader.session /\ InferenceRan(req)
           result == process_image(_model_loader.session,
                                   ModelLoader_load_config(config_file), req)
       IN
       /\ _model_loader' =
            IF ran
            THEN [_model_loader EXCEPT
                    !.metrics = update_metrics(_model_loader.metrics, latency_ms)]
            ELSE _model_loader
       /\ arrivals' = IF ran THEN Append(arrivals, latency_ms) ELSE arrivals
       /\ results' = AppendResult(results, result)
    /\ calls' = calls + 1
    /\ UNCHANGED <<config_file, riskVars, poseVars, model_file, _pose_pipeline,
                   response, scorerVars, image_paths, concVars, pc>>

\* `return results`, the loop being over.
ProcessBatchReturn ==
    /\ pc = "ready"
    /\ calls = Len(image_paths)
    /\ pc' = "done"
    /\ UNCHANGED <<config_file, riskVars, poseVars, serviceVars, scorerVars,
                   batchVars, concVars, calls>>

NextBatch ==
    \/ \E latency_ms \in Latencies : ProcessBatchImage(latency_ms)
    \/ ProcessBatchReturn

SpecBatch == InitBatch /\ [][NextBatch]_vars

(***************************************************************************)
(* ModelLoader.update_metrics, called over and over (SpecMetrics).         *)
(***************************************************************************)
\* Bound: update_metrics calls made on top of the drawn history.
MaxUpdates == 4

\* Bound: length of the long drawn history, just short of a full window.
WarmCalls == 998

\* Latencies handed to update_metrics: those of Latencies and a slow one.
WindowLatencies == Latencies \cup {20}

\* update_metrics called once for each of seq[from], ..., seq[to], in order
\* (the first half is carried out before the second begins).
RECURSIVE Replay(_, _, _, _)
Replay(metrics, seq, from, to) ==
    IF from > to THEN metrics
    ELSE IF from = to THEN update_metrics(metrics, seq[from])
    ELSE LET first == Replay(metrics, seq, from, (from + to) \div 2) IN
         IF first.inference_count > 0
         THEN Replay(first, seq, (from + to) \div 2 + 1, to)
         ELSE first

\* The calls already made on the loader: none, or WarmCalls of them with one
\* slow inference in fifty and a middling one in three.
Histories ==
    {<<>>,
     [i \in 1..WarmCalls |-> IF i % 50 = 0 THEN 20 ELSE IF i % 3 = 0 THEN 8 ELSE 5]}

InitMetrics ==
    /\ arrivals \in Histories
    /\ _model_loader =
            [ModelLoader EXCEPT !.metrics = Replay(@, arrivals, 1, Len(arrivals))]
    /\ config_file = [exists |-> FALSE, doc |-> EmptyDict]
    /\ model_file = "missing"
    /\ _pose_pipeline = FALSE
    /\ _scorer = NoScorer
    /\ inputs = EmptyDict
    /\ risk_result = NoResult
    /\ scored = 0
    /\ model_output = NoTensor
    /\ keypoints = <<>>
    /\ features = EmptyDict
    /\ response = NoResult
    /\ args = NoCall
    /\ ret = NoResult
    /\ image_paths = <<>>
    /\ results = <<>>
    /\ local_scorer = <<>>
    /\ constructions = 0
    /\ calls = 0
    /\ pc = "ready"

\* loader.update_metrics(latency_ms)
UpdateMetrics(latency_ms) ==
    /\ pc = "ready"
    /\ calls < MaxUpdates
    /\ _model_loader' =
            [_model_loader EXCEPT !.metrics = update_metrics(@, latency_ms)]
    /\ arrivals' = Append(arrivals, latency_ms)
    /\ calls' = calls + 1
    /\ UNCHANGED <<config_file, riskVars, poseVars, model_file, _pose_pipeline,
                   response, scorerVars, batchVars, concVars, pc>>

NextMetrics == \E latency_ms \in WindowLatencies : UpdateMetrics(latency_ms)

SpecMetrics == InitMetrics /\ [][NextMetrics]_vars

(***************************************************************************)
(* Properties of compute_risk (SpecRisk).                                  *)
(***************************************************************************)
Features == Get(inputs, "ergonomic_features", EmptyDict)

Returned == pc = "done" /\ ~IsRaised(risk_result)

AllAbsent(f) == DOMAIN f = FeatureNames /\ \A k \in FeatureNames : f[k] = None

ScoresAllNull(r) ==
    /\ r.rula = None
    /\ r.reba = None
    /\ r.composite = None
    /\ r.traffic_light = NoneStr
    /\ r.risk_level = NoneStr

\* C1: when all eight feature fields are None, compute_risk returns rula,
\* reba, composite, traffic_light and risk_level all None (no zero scores,
\* no "green", no "negligible").
C1_AllAbsentGivesAllNull ==
    (Returned /\ AllAbsent(Features)) => ScoresAllNull(risk_result)

C12_ComputeRiskNeverRaises ==
    pc = "done" =>
        /\ ~IsRaised(risk_result)
        /\ "error" \in DOMAIN risk_result => ScoresAllNull(risk_result)

\* A step that is a compute_risk(inputs) call made after an earlier one.
RepeatedCall == pc = "ready" /\ pc' = "done" /\ "pending" \notin DOMAIN risk_result

\* C16: a repeated compute_risk call on the same features returns the
\* record the earlier call returned, whatever calls ran in between, and no
\* call changes the features or the constructed scorer's thresholds,
\* weights and band table.
C16_RepeatedCallsIdentical ==
    [][/\ RepeatedCall => risk_result' = risk_result
       /\ inputs' = inputs
       /\ _scorer.constructed => _scorer' = _scorer]_vars

\* The third call of the process has returned scores under a configuration
\* file of its own; the scorer has run for this caller and for another.
C16_Witness ==
    /\ pc = "done"
    /\ calls = 3
    /\ scored = 3
    /\ config_file.doc = FullDoc
    /\ EntersScoring(inputs)
    /\ risk_result.composite = 100
    /\ risk_result.risk_level = "unknown"

\* The documented defaults: thresholds per feature, REBA weights, bands.
DocumentedThresholds ==
    [neck_flexion |-> Th(20, 45, 60), trunk_flexion |-> Th(20, 45, 60),
     shoulder_abduction |-> Th(45, 90, 135), elbow_flexion |-> Th(60, 100, 140)]

DocumentedWeights == [neck |-> 20, trunk |-> 25, upper_arm |-> 20, lower_arm |-> 15]

DocumentedBands ==
    << <<"negligible", 0, 20>>, <<"low", 21, 40>>, <<"medium", 41, 60>>,
       <<"high", 61, 80>>, <<"very_high", 81, 100>> >>

\* Whether the configuration the process finds provides a band table.
ProvidesBands ==
    "risk_levels" \in DOMAIN Get(_load_config(config_file), "risk_scoring", EmptyDict)

\* The scorer with the documented default in the place of every item the
\* configuration does not provide.
WithDocumentedDefaults(self) ==
    [constructed |-> TRUE,
     thresholds |-> [k \in DOMAIN DocumentedThresholds |->
                        Get(self.thresholds, k, DocumentedThresholds[k])],
     weights |-> [k \in DOMAIN DocumentedWeights |->
                        Get(self.weights, k, DocumentedWeights[k])],
     risk_levels |-> IF ProvidesBands THEN self.risk_levels ELSE DocumentedBands]

\* C15: whatever the configuration document lacks (thresholds of a feature,
\* a REBA weight, the band table), compute_risk returns what it returns
\* under the configuration completed with the documented defaults.
C15_DefaultsForMissingItems ==
    (pc = "done" /\ _scorer.constructed) =>
        risk_result = compute_risk_with(WithDocumentedDefaults(_scorer), inputs)

\* The part of C15 the code delivers: thresholds and weights.  Scores,
\* composite and traffic light are those of the completed configuration.
C15_DefaultsForThresholdsAndWeights ==
    (pc = "done" /\ _scorer.constructed) =>
        LET expected == compute_risk_with(WithDocumentedDefaults(_scorer), inputs)
        IN  /\ DOMAIN risk_result = DOMAIN expected
            /\ \A k \in DOMAIN risk_result \ {"risk_level"} : risk_result[k] = expected[k]

\* Python's round() on n / 2 for n >= 0: to nearest, ties to the even integer.
PyRoundHalf(n) ==
    IF n % 2 = 0 THEN n \div 2
    ELSE IF (n \div 2) % 2 = 0 THEN n \div 2 ELSE (n \div 2) + 1

HasScores == Returned /\ risk_result.reba # None /\ risk_result.rula # None

C10_TrafficLightCutoffs ==
    (Returned /\ risk_result.composite # None) =>
        LET c == risk_result.composite IN
        /\ c <= 40 => risk_result.traffic_light = "green"
        /\ (41 <= c /\ c <= 60) => risk_result.traffic_light = "yellow"
        /\ c > 60 => risk_result.traffic_light = "red"

\* A composite exactly on a cutoff, under a configuration file of its own.
C10_Witness ==
    /\ Returned
    /\ config_file.exists
    /\ risk_result.composite = 60
    /\ risk_result.traffic_light = "yellow"

\* The REBA result of the returned record, and four times its weighted sum
\* times 25 (weights in hundredths): 4 * weighted_sum * 25.
Reba == risk_result.details.reba

RebaQuarters ==
    Reba.neck_score * Get(_scorer.weights, "neck", 20)
    + Reba.trunk_score * Get(_scorer.weights, "trunk", 25)
    + Reba.upper_arm_score * Get(_scorer.weights, "upper_arm", 20)
    + Reba.lower_arm_score * Get(_scorer.weights, "lower_arm", 15)

\* Python's round() on n / 4 for n >= 0: to nearest, ties to the even integer.
PyRoundQuarter(n) ==
    LET q == n \div 4
        r == n % 4
    IN  IF r < 2 THEN q
        ELSE IF r > 2 THEN q + 1
        ELSE IF q % 2 = 0 THEN q ELSE q + 1

RebaScored == Returned /\ "details" \in DOMAIN risk_result

\* C20: the REBA score is round(weighted_sum * 25) clamped into [0, 100],
\* weighted_sum being the sum of the four ordinals times their weights.
C20_RebaIsRoundedAndClamped ==
    RebaScored =>
        /\ Reba.score = Min(PyRoundQuarter(RebaQuarters), 100)
        /\ 0 <= Reba.score
        /\ Reba.score <= 100

\* What the code delivers of C20: an integer in 0..100 that is 100 when
\* weighted_sum * 25 is 100 or more, and otherwise lies at most 1 below it.
C20_RebaIsCappedAndAtMostOneBelow ==
    RebaScored =>
        /\ 0 <= Reba.score
        /\ Reba.score <= 100
        /\ RebaQuarters >= 400 <=> Reba.score = 100
        /\ Reba.score < 100 =>
            /\ 4 * Reba.score <= RebaQuarters
            /\ RebaQuarters <= 4 * Reba.score + 4

\* The threshold entries the constructed scorer uses for the two arm joints.
ShoulderEntry == Get(_scorer.thresholds, "shoulder_abduction", DefaultShoulder)
ElbowEntry == Get(_scorer.thresholds, "elbow_flexion", DefaultElbow)

Feature(k) == Get(Features, k, None)

\* The ordinal of the angle sum2 / 2 against the entry t.
OrdinalOfHalf(sum2, t) ==
    IF sum2 < 2 * t.low THEN 1
    ELSE IF sum2 < 2 * t.medium THEN 2
    ELSE IF sum2 < 2 * t.high THEN 3
    ELSE 4

\* The arm ordinal as C21 states it, doubled: the sum of the two sides'
\* ordinals when both are observed, twice the ordinal of the one observed
\* side, 0 when neither is.
TwiceAverageOfOrdinals(left, right, t) ==
    IF left # None /\ right # None
    THEN _score_angle(left, t) + _score_angle(right, t)
    ELSE IF left # None THEN 2 * _score_angle(left, t)
    ELSE IF right # None THEN 2 * _score_angle(right, t)
    ELSE 0

\* The arm ordinal as the code computes it: the ordinal of the average of
\* the two angles when both sides are observed.
OrdinalOfAverageAngle(left, right, t) ==
    IF left # None /\ right # None THEN OrdinalOfHalf(left + right, t)
    ELSE IF left # None THEN _score_angle(left, t)
    ELSE IF right # None THEN _score_angle(right, t)
    ELSE 0

\* C21 as stated: each REBA arm ordinal is the average of the left and
\* right ordinals when both sides are observed, the ordinal of the one
\* observed side, and 0 when neither is observed.
C21_ArmOrdinalAveragesOrdinals ==
    RebaScored =>
        /\ 2 * Reba.upper_arm_score =
            TwiceAverageOfOrdinals(Feature("left_shoulder_abduction"),
                                   Feature("right_shoulder_abduction"), ShoulderEntry)
        /\ 2 * Reba.lower_arm_score =
            TwiceAverageOfOrdinals(Feature("left_elbow_flexion"),
                                   Feature("right_elbow_flexion"), ElbowEntry)

\* C21 amended: each REBA arm ordinal is the ordinal of the average of the
\* left and right angles when both sides are observed, the ordinal of the
\* one observed side, and 0 when neither is observed.
C21_ArmOrdinalScoresAverageAngle ==
    RebaScored =>
        /\ Reba.upper_arm_score =
            OrdinalOfAverageAngle(Feature("left_shoulder_abduction"),
                                  Feature("right_shoulder_abduction"), ShoulderEntry)
        /\ Reba.lower_arm_score =
            OrdinalOfAverageAngle(Feature("left_elbow_flexion"),
                                  Feature("right_elbow_flexion"), ElbowEntry)

\* Shoulders at 15 and 140 degrees (ordinals 1 and 4) score 2, the ordinal
\* of 77.5 degrees; only the right elbow is observed.
C21_Witness ==
    /\ RebaScored
    /\ ~config_file.exists
    /\ Feature("left_shoulder_abduction") = 15
    /\ Feature("right_shoulder_abduction") = 140
    /\ Reba.upper_arm_score = 2
    /\ Feature("left_elbow_flexion") = None
    /\ Feature("right_elbow_flexion") = 140
    /\ Reba.lower_arm_score = 4

NeckEntry == Get(_scorer.thresholds, "neck_flexion", DefaultNeck)
TrunkEntry == Get(_scorer.thresholds, "trunk_flexion", DefaultTrunk)

Rula == risk_result.details.rula

\* The two RULA groups as C22 states them: left side only for the arm.
RulaGroupsAsStated ==
    /\ Rula.group_a_score =
        _score_angle(Feature("left_shoulder_abduction"), ShoulderEntry)
        + _score_angle(Feature("left_elbow_flexion"), ElbowEntry)
    /\ Rula.group_b_score =
        _score_angle(Feature("neck_flexion"), NeckEntry)
        + _score_angle(Feature("trunk_flexion"), TrunkEntry)

\* C22: group_a is the sum of the left shoulder and left elbow ordinals,
\* group_b the sum of the neck and trunk ordinals, and the RULA score is
\* round((group_a + group_b) * 12.5) clamped into [0, 100].
C22_RulaGroupsAndRoundedScore ==
    RebaScored =>
        /\ RulaGroupsAsStated
        /\ Rula.score =
            Min(PyRoundHalf(25 * (Rula.group_a_score + Rula.group_b_score)), 100)

\* What the code delivers of C22: the two groups, and a score that is
\* (group_a + group_b) * 12.5 with its half dropped, capped at 100.
C22_RulaGroupsAndTruncatedScore ==
    RebaScored =>
        LET n == Rula.group_a_score + Rula.group_b_score IN
        /\ RulaGroupsAsStated
        /\ 0 <= Rula.score
        /\ Rula.score <= 100
        /\ n >= 8 <=> Rula.score = 100
        /\ n < 8 => (2 * Rula.score = 25 * n \/ 2 * Rula.score + 1 = 25 * n)

\* The number of feature fields supplied with a value.
NonNullFields == Cardinality({k \in DOMAIN Features : Features[k] # None})

\* C23: the confidence of REBA and of RULA is the number of non-null
\* feature fields divided by eight, the number of ErgonomicFeatures fields,
\* also for a feature set that supplies only some of the eight; it lies in
\* [0, 1] and is the same for both.  <<a, b>> stands for a / b.
C23_ConfidenceOverEightFields ==
    RebaScored =>
        /\ Reba.confidence[1] * 8 = NonNullFields * Reba.confidence[2]
        /\ Reba.confidence[1] <= Reba.confidence[2]
        /\ Rula.confidence = Reba.confidence

\* What the code delivers of C23: the number of non-null fields divided by
\* the number of fields supplied; in [0, 1], the same for REBA and RULA.
C23_ConfidenceOverSuppliedFields ==
    RebaScored =>
        /\ Reba.confidence[1] * Cardinality(DOMAIN Features)
            = NonNullFields * Reba.confidence[2]
        /\ 0 <= Reba.confidence[1]
        /\ Reba.confidence[1] <= Reba.confidence[2]
        /\ Rula.confidence = Reba.confidence

\* The angle features that are observed in the features scored.
ObservedAngles == {k \in AngleFeatures \cap DOMAIN Features : Features[k] # None}

\* What compute_risk returns for the same features with angle k not observed.
WithoutAngle(k) ==
    compute_risk_with(_scorer, [ergonomic_features |-> [Features EXCEPT ![k] = None]])

\* The feature of the other side of the same arm joint, or "none".
OtherSide(k) ==
    CASE k = "left_shoulder_abduction" -> "right_shoulder_abduction"
      [] k = "right_shoulder_abduction" -> "left_shoulder_abduction"
      [] k = "left_elbow_flexion" -> "right_elbow_flexion"
      [] k = "right_elbow_flexion" -> "left_elbow_flexion"
      [] OTHER -> "none"

\* C25: under the default configuration, replacing any one observed angle
\* by None yields REBA, RULA and composite scores that are each at most
\* the scores before the replacement.
C25_LosingObservationNeverRaisesRisk ==
    (RebaScored /\ ~config_file.exists) =>
        \A k \in ObservedAngles :
            /\ WithoutAngle(k).reba <= risk_result.reba
            /\ WithoutAngle(k).rula <= risk_result.rula
            /\ WithoutAngle(k).composite <= risk_result.composite

\* What the code delivers of C25: RULA never rises, and REBA and the
\* composite do not rise when the angle lost is the neck's, the trunk's, or
\* an arm angle whose other side is not observed.
C25_LosingUnpairedObservationNeverRaisesRisk ==
    (RebaScored /\ ~config_file.exists) =>
        \A k \in ObservedAngles :
            /\ WithoutAngle(k).rula <= risk_result.rula
            /\ OtherSide(k) \notin ObservedAngles =>
                /\ WithoutAngle(k).reba <= risk_result.reba
                /\ WithoutAngle(k).composite <= risk_result.composite

(***************************************************************************)
(* Properties of the scorer's methods (SpecScorer).                        *)
(***************************************************************************)
LevelReturned == pc = "done" /\ args.method = "get_risk_level"

\* The positions, in declared order, of the configured bands whose
\* [min, max] range contains s, both ends included.
BandsContaining(s) ==
    {i \in DOMAIN _scorer.risk_levels :
        _scorer.risk_levels[i][2] <= s /\ s <= _scorer.risk_levels[i][3]}

\* C11: get_risk_level returns the label of the first band, in declared
\* order, whose inclusive [min, max] range contains the score, and "unknown"
\* exactly when no configured band contains it.
C11_FirstContainingBandOrUnknown ==
    LevelReturned =>
        /\ ret = "unknown" <=> BandsContaining(args.score) = {}
        /\ \A i \in BandsContaining(args.score) :
            (\A j \in BandsContaining(args.score) : i <= j)
                => ret = _scorer.risk_levels[i][1]

\* A score that two overlapping bands contain.
C11_Witness ==
    /\ LevelReturned
    /\ Cardinality(BandsContaining(args.score)) = 2
    /\ ret = "ok"

AngleScored ==
    /\ pc = "done"
    /\ args.method = "_score_angle"
    /\ DOMAIN args.thresholds = {"low", "medium", "high"}

Ordered(t) == 0 < t.low /\ t.low <= t.medium /\ t.medium <= t.high

\* C18: _score_angle returns 0 exactly for a missing angle, and for a present
\* angle a returns 1 if a < low, else 2 if a < medium, else 3 if a < high,
\* else 4; with thresholds 0 < low <= medium <= high an angle of 0 scores 1
\* and an angle equal to a threshold scores in the band above it.
C18_ScoreAngleBands ==
    AngleScored =>
        LET a == args.angle
            t == args.thresholds
        IN  /\ ret = 0 <=> a = None
            /\ a # None =>
                /\ ret \in 1..4
                /\ ret = 1 <=> a < t.low
                /\ ret = 2 <=> (a >= t.low /\ a < t.medium)
                /\ ret = 3 <=> (a >= t.low /\ a >= t.medium /\ a < t.high)
                /\ ret = 4 <=> (a >= t.low /\ a >= t.medium /\ a >= t.high)
            /\ (a # None /\ Ordered(t)) =>
                /\ a = 0 => ret = 1
                /\ a = t.low => ret >= 2
                /\ a = t.medium => ret >= 3
                /\ a = t.high => ret = 4

\* An angle equal to the medium threshold.
C18_Witness ==
    /\ AngleScored
    /\ args.thresholds = DefaultNeck
    /\ args.angle = 45
    /\ ret = 3

\* C19: for every complete threshold entry and present angles a <= b,
\* _score_angle(a) <= _score_angle(b).
C19_ScoreAngleMonotonic ==
    (AngleScored /\ args.angle # None) =>
        \A b \in 0..MaxAngle :
            /\ args.angle <= b => ret <= _score_angle(b, args.thresholds)
            /\ b <= args.angle => _score_angle(b, args.thresholds) <= ret

\* An angle in the second band, with angles of the first and last band on
\* either side, under thresholds given out of order.
C19_Witness ==
    /\ AngleScored
    /\ args.thresholds = Th(50, 20, 30)
    /\ args.angle = 50
    /\ ret = 4
    /\ _score_angle(49, args.thresholds) = 1

(***************************************************************************)
(* Properties of extract_keypoints and calculate_ergonomic_features        *)
(* (SpecPose).                                                             *)
(***************************************************************************)
PoseConfig == Get(ModelLoader_load_config(config_file), "pose_estimation", EmptyDict)
Threshold == Get(PoseConfig, "confidence_threshold", 3)
Names == Get(PoseConfig, "keypoint_names", <<>>)

Decoded == pc \in {"decoded", "done"}

RowIds == 0..(Len(model_output.rows) - 1)
RowOf(idx) == model_output.rows[idx + 1]

\* C4: from a rank-3 tensor extract_keypoints returns exactly the rows whose
\* confidence is >= the threshold (equality included), each with the
\* confidence of its row.
C4_ExactlyAtOrAboveThreshold ==
    (Decoded /\ model_output.ndim = 3) =>
        /\ \A i \in DOMAIN keypoints :
            /\ keypoints[i].id \in RowIds
            /\ keypoints[i].confidence = RowOf(keypoints[i].id)[3]
            /\ keypoints[i].confidence >= Threshold
        /\ \A idx \in RowIds :
            RowOf(idx)[3] >= Threshold => \E i \in DOMAIN keypoints : keypoints[i].id = idx

C4_Witness ==
    /\ Decoded
    /\ model_output.ndim = 3
    /\ \E idx \in RowIds :
        RowOf(idx)[3] = Threshold /\ \E i \in DOMAIN keypoints : keypoints[i].id = idx
    /\ \E idx \in RowIds : RowOf(idx)[3] < Threshold
    /\ Len(keypoints) < Len(model_output.rows)

\* C5: a tensor whose rank is not 3 decodes to the empty keypoint list.
C5_OtherRanksDecodeEmpty ==
    (Decoded /\ model_output.ndim # 3) => keypoints = <<>>

C5_Witness ==
    /\ Decoded
    /\ model_output.ndim = 2
    /\ Len(model_output.rows) > 0
    /\ \A idx \in RowIds : RowOf(idx)[3] >= Threshold
    /\ Names # <<>>
    /\ keypoints = <<>>

\* C6: a returned keypoint has the index of its row as id, x and y from the
\* row's (y, x, confidence), the configured name of that index or
\* "keypoint_<id>" past the end of the name list; ids ascend.
C6_KeypointFields ==
    Decoded =>
        \A i \in DOMAIN keypoints :
            LET kp == keypoints[i] IN
            /\ kp.id \in RowIds
            /\ kp.y = RowOf(kp.id)[1]
            /\ kp.x = RowOf(kp.id)[2]
            /\ kp.id < Len(Names) => kp.name = Names[kp.id + 1]
            /\ kp.id >= Len(Names) => kp.name = "keypoint_" \o ToString(kp.id)
            /\ (kp.id = 3 /\ Len(Names) <= 3) => kp.name = "keypoint_3"
            /\ i > 1 => keypoints[i - 1].id < kp.id

C6_Witness ==
    /\ Decoded
    /\ \E i, j \in DOMAIN keypoints :
        /\ keypoints[i].name = "left_shoulder"
        /\ keypoints[i].x # keypoints[i].y
        /\ keypoints[j].name = "keypoint_3"

\* C24: every keypoint list extract_keypoints returns is unique by id and
\* unique by name, for every tensor, threshold and configured name list.
C24_UniqueByIdAndName ==
    Decoded =>
        \A i, j \in DOMAIN keypoints :
            i # j => (keypoints[i].id # keypoints[j].id
                      /\ keypoints[i].name # keypoints[j].name)

\* The name extract_keypoints gives to row idx.
NameOfRow(idx) == IF idx < Len(Names) THEN Names[idx + 1] ELSE SynthName(idx)

\* What the code delivers of C24: ids are unique, and two keypoints share a
\* name only when the configuration gives their rows the same name.
C24_UniqueByIdNamesAsConfigured ==
    Decoded =>
        \A i, j \in DOMAIN keypoints :
            i # j =>
                /\ keypoints[i].id # keypoints[j].id
                /\ keypoints[i].name = keypoints[j].name =>
                    /\ keypoints[i].id < Len(Names) \/ keypoints[j].id < Len(Names)
                    /\ NameOfRow(keypoints[i].id) = NameOfRow(keypoints[j].id)

PresentNames == {keypoints[i].name : i \in DOMAIN keypoints}

FirstNamed(name) ==
    keypoints[CHOOSE i \in DOMAIN keypoints :
        /\ keypoints[i].name = name
        /\ \A j \in DOMAIN keypoints : keypoints[j].name = name => i <= j]

ShoulderWidthZero == FirstNamed("left_shoulder").x = FirstNamed("right_shoulder").x

Required(f) ==
    CASE f = "neck_flexion" -> {"nose", "left_shoulder", "right_shoulder"}
      [] f = "trunk_flexion" -> {"left_shoulder", "right_shoulder", "left_hip", "right_hip"}
      [] f = "left_shoulder_abduction" -> {"left_shoulder", "left_elbow", "left_hip"}
      [] f = "right_shoulder_abduction" -> {"right_shoulder", "right_elbow", "right_hip"}
      [] f = "left_elbow_flexion" -> {"left_shoulder", "left_elbow", "left_wrist"}
      [] f = "right_elbow_flexion" -> {"right_shoulder", "right_elbow", "right_wrist"}
      [] f = "asymmetry_score" -> {"left_shoulder", "right_shoulder"}
      [] f = "reach_distance_ratio" -> {"left_shoulder", "right_shoulder", "left_wrist"}

\* C7: each of the eight features is non-None exactly when all the
\* keypoints it requires are present by name (and, for
\* reach_distance_ratio, the shoulder width is not zero); otherwise None.
C7_FeaturePresentIffRequiredKeypoints ==
    pc = "done" =>
        /\ DOMAIN features = FeatureNames
        /\ \A f \in FeatureNames :
            features[f] # None <=>
                /\ Required(f) \subseteq PresentNames
                /\ f = "reach_distance_ratio" => ~ShoulderWidthZero

\* Neck measured, trunk not (a hip is missing), and a measured value of 0.
C7_Witness ==
    /\ pc = "done"
    /\ features["neck_flexion"] # None
    /\ features["trunk_flexion"] = None
    /\ "left_hip" \in PresentNames
    /\ features["asymmetry_score"] = 0

AllNinePresent == \A i \in 1..9 : NineNames[i] \in PresentNames

\* C8 as stated: with all nine named keypoints present, all eight features
\* are non-None whatever the coordinates.
C8_AllNineGiveAllEight ==
    (pc = "done" /\ AllNinePresent) => \A f \in FeatureNames : features[f] # None

\* C8 amended: with all nine named keypoints present, the seven features
\* other than reach_distance_ratio are non-None whatever the coordinates,
\* and reach_distance_ratio is non-None exactly when the two shoulders
\* differ in x.
C8_AllNineGiveSevenAndReachIfWidth ==
    (pc = "done" /\ AllNinePresent) =>
        /\ \A f \in FeatureNames \ {"reach_distance_ratio"} : features[f] # None
        /\ features["reach_distance_ratio"] # None <=> ~ShoulderWidthZero

C8_Witness ==
    /\ pc = "done"
    /\ AllNinePresent
    /\ ShoulderWidthZero
    /\ features["reach_distance_ratio"] = None
    /\ features["right_elbow_flexion"] # None
    /\ features["trunk_flexion"] # None

(***************************************************************************)
(* Properties of the service (Spec).                                       *)
(***************************************************************************)
Answered == response # NoResult /\ response.status = "success"

\* The last request's inference output was a rank-2 tensor, decoded by the
\* pipeline.
Rank2Served == Answered /\ _pose_pipeline /\ model_output.ndim = 2

\* C2: a request whose inference output is a rank-2 tensor yields no
\* keypoints, features that are all None, and a risk assessment whose rula,
\* reba, composite, traffic_light and risk_level are all None.
C2_Rank2EndToEndAllNull ==
    Rank2Served =>
        /\ keypoints = <<>>
        /\ AllAbsent(features)
        /\ ScoresAllNull(response.risk_assessment)

\* The first two stages of C2, which the code does deliver.
C2_Rank2GivesNoKeypointsAllNullFeatures ==
    Rank2Served =>
        /\ keypoints = <<>>
        /\ AllAbsent(features)
        /\ response.posture.postures[1].ergonomic_features = features

\* C26: once initialize_models has run, get_model_info reports loaded
\* exactly when the pose pipeline exists (estimate_posture does not answer
\* with the "Model not loaded" stub), and a load_model that returned false
\* has left the loader's session unset.
C26_LoadedIffPipelineExists ==
    pc = "serving" =>
        /\ get_model_info(_model_loader).loaded <=> _pose_pipeline
        /\ ~load_model(model_file)[2] => ~_model_loader.session
        /\ (response # NoResult /\ response.status = "ok") =>
                (response.ml.model_loaded <=> _pose_pipeline)

\* What the code delivers of C26: a pipeline exists only with a session, so
\* loaded is reported whenever the pipeline exists; and initialize_models
\* run again changes neither.
C26_PipelineImpliesLoaded ==
    pc = "serving" =>
        /\ _pose_pipeline => get_model_info(_model_loader).loaded
        /\ _pose_pipeline <=> load_model(model_file)[2]
        /\ _model_loader.session <=> load_model(model_file)[1]

(***************************************************************************)
(* Properties of get_scorer under concurrent calls (SpecConcurrent).       *)
(***************************************************************************)
\* C17: under every interleaving of concurrent compute_risk calls the
\* BiomechanicalScorer is constructed at most once in the process, and a
\* call reads thresholds, weights and bands only from a fully constructed
\* scorer.
C17_ConstructedOnceBeforeUse ==
    /\ constructions <= 1
    /\ \A t \in Threads : pc[t] = "score" => local_scorer[t].constructed

\* The second half of C17, which the code delivers: the scorer a call
\* scores with is fully constructed, and is the one the module holds or one
\* built from the same file.
C17_ScoresWithConstructedScorer ==
    \A t \in Threads :
        pc[t] = "score" =>
            /\ local_scorer[t].constructed
            /\ local_scorer[t] = BiomechanicalScorer(config_file)

(***************************************************************************)
(* Properties of process_image and process_batch (SpecBatch).              *)
(***************************************************************************)
\* A stage of process_image throws on this input: preprocessing (the image
\* cannot be read), inference (no session, or session.run raises), or
\* keypoint decoding (rows that are not triples).
StageThrows(req) ==
    \/ ~req.image_ok
    \/ ~_model_loader.session
    \/ ~RunReturned(req.out)
    \/ (req.out.ndim = 3 /\ \E i \in DOMAIN req.out.rows : Len(req.out.rows[i]) # 3)

FailureKeys == {"success", "error", "keypoints", "ergonomic_features",
                "num_keypoints_detected"}

SuccessKeys == {"success", "keypoints", "ergonomic_features", "num_keypoints_detected"}

\* C13: process_image never raises: when a stage throws the result is the
\* failure record (success false, an error message, keypoints [],
\* ergonomic_features {}, num_keypoints_detected 0), and otherwise success
\* is true and num_keypoints_detected is the number of keypoints returned.
C13_ProcessImageNeverRaises ==
    \A i \in DOMAIN results :
        LET r == results[i] IN
        /\ ~IsRaised(r)
        /\ StageThrows(image_paths[i]) =>
            /\ DOMAIN r = FailureKeys
            /\ r.success = FALSE
            /\ r.error \in {"ValueError", "RuntimeError"}
            /\ r.keypoints = <<>>
            /\ DOMAIN r.ergonomic_features = {}
            /\ r.num_keypoints_detected = 0
        /\ ~StageThrows(image_paths[i]) =>
            /\ DOMAIN r = SuccessKeys
            /\ r.success = TRUE
            /\ r.num_keypoints_detected = Len(r.keypoints)
            /\ DOMAIN r.ergonomic_features = FeatureNames

\* One batch with a decoding failure, an inference failure and a success
\* with three keypoints.
C13_Witness ==
    /\ pc = "done"
    /\ Len(results) = 3
    /\ image_paths[1].out = MalformedTensor
    /\ results[1].success = FALSE
    /\ results[2].success = FALSE
    /\ results[2].error = "RuntimeError"
    /\ results[3].success = TRUE
    /\ results[3].num_keypoints_detected = 3

\* What process_image returns for req alone, on a pipeline that has
\* processed nothing before.
Alone(req) ==
    process_image(load_model(model_file)[1], ModelLoader_load_config(config_file), req)

\* C14: process_batch returns one result per input, in input order, each
\* equal to what process_image returns for that input alone; a failure
\* takes its own position and leaves the other results as they are.
C14_BatchIsElementwise ==
    /\ Len(results) = calls
    /\ \A i \in DOMAIN results : results[i] = Alone(image_paths[i])
    /\ pc = "done" => Len(results) = Len(image_paths)

\* A returned batch of three: a failure between two successes.
C14_Witness ==
    /\ pc = "done"
    /\ Len(image_paths) = 3
    /\ Len(results) = 3
    /\ results[1].success = TRUE
    /\ results[2].success = FALSE
    /\ results[3].success = TRUE
    /\ results[3].num_keypoints_detected = 3
    /\ results[1].num_keypoints_detected = 9
    /\ _model_loader.metrics.inference_count = 2

(***************************************************************************)
(* Properties of update_metrics (SpecMetrics).                             *)
(***************************************************************************)
Metrics == _model_loader.metrics

\* v is what an ascending arrangement of window holds at position idx,
\* counted from 0.
AscendingAt(window, idx, v) ==
    /\ 0 <= idx /\ idx < Len(window)
    /\ \E i \in DOMAIN window : window[i] = v
    /\ Cardinality({i \in DOMAIN window : window[i] < v}) <= idx
    /\ idx < Cardinality({i \in DOMAIN window : window[i] <= v})

\* C27: after n update_metrics calls on a ModelLoader, inference_count is n,
\* the latency window holds the last min(n, 1000) latencies in the order
\* they arrived, and, once a call has been made, the recorded percentiles
\* are the window's elements at positions int(0.5 m), int(0.95 m) and
\* int(0.99 m) of its ascending arrangement, m being the window's size:
\* positions within the window, elements of the window, and
\* latency_p50 <= latency_p95 <= latency_p99.
C27_MetricsTrackTheLastThousand ==
    "metrics" \in DOMAIN _model_loader =>
        LET n == Len(arrivals)
            m == IF n < 1000 THEN n ELSE 1000
        IN  /\ Metrics.inference_count = n
            /\ Len(Metrics.latencies) = m
            /\ \A i \in 1..m : Metrics.latencies[i] = arrivals[n - m + i]
            /\ n > 0 =>
                /\ AscendingAt(Metrics.latencies, (m * 50) \div 100, Metrics.latency_p50)
                /\ AscendingAt(Metrics.latencies, (m * 95) \div 100, Metrics.latency_p95)
                /\ AscendingAt(Metrics.latencies, (m * 99) \div 100, Metrics.latency_p99)
                /\ Metrics.latency_p50 <= Metrics.latency_p95
                /\ Metrics.latency_p95 <= Metrics.latency_p99

\* More than a thousand calls made: the window is full, its first entry is
\* no longer the first arrival, and the three percentiles differ.
C27_Witness ==
    /\ "metrics" \in DOMAIN _model_loader
    /\ Len(arrivals) > 1000
    /\ Metrics.inference_count = Len(arrivals)
    /\ Len(Metrics.latencies) = 1000
    /\ Metrics.latencies[1] # arrivals[1]
    /\ Metrics.latency_p50 < Metrics.latency_p95
    /\ Metrics.latency_p95 < Metrics.latency_p99

====
